---- MODULE Spec2Model ----
(***************************************************************************)
(* Model of skeggse/terraform-modules, lambda/deploy_function.py (weighted  *)
(* alias routing with an optimistic-concurrency commit) and                 *)
(* lambda/update_code.py (content-addressed conditional publish).           *)
(***************************************************************************)
EXTENDS Integers, Naturals, Sequences, FiniteSets, TLC

VARIABLES
    alias,      \* the Alias value object under evaluation
    op,         \* the Alias operation applied last
    args,       \* the arguments of that operation
    ret,        \* the value returned by get_weight
    equal,      \* the value returned by __eq__
    shown,      \* the versions listed for selection, in the order shown
    object,     \* the S3 object at (bucket, key): its body and its Metadata
    ppc,        \* per publisher: where its upload_if_changed call stands
    value,      \* per publisher: the bytes of the bundle it publishes
    metadata,   \* per publisher: the Metadata it read, {} after a 403 or 404
    head,       \* per publisher: how head_object answered its call
    outcome,    \* per publisher: what the call returned or raised
    can_read,   \* per publisher: whether it may read the object's metadata
    stored_at_head, \* per publisher: the object held the payload's digest at its read
    undisturbed,    \* per publisher: nobody else wrote since its read
    began_after,    \* per publisher: the call completed last before its read had the same payload
    last_done,  \* the payload of the call that completed last, calls overtaken by
                \* another publisher's write not counted
    remote,     \* per function: the alias `current` as Lambda holds it
    revisions,  \* how many RevisionIds Lambda has handed out
    pc,         \* per run of deploy_function.py: where main stands
    cache,      \* per run: the memo of get_alias, per function
    function_name,  \* per run: the function it deploys
    new_alias,  \* per run: the Alias it proposes
    answered,   \* per run: how Lambda answered its update_alias
    result,     \* per run: how main ended
    functions,  \* per run: the functions the discovery kept
    updates     \* per run: how many update_alias requests it has sent

aliasVars == <<alias, op, args, ret, equal, shown>>
pubVars == <<object, ppc, value, metadata, head, outcome, can_read,
             stored_at_head, undisturbed, began_after, last_done>>
depVars == <<remote, revisions, pc, cache, function_name, new_alias, answered, result,
             functions, updates>>
vars == <<aliasVars, pubVars, depVars>>

----------------------------------------------------------------------------
(* Binary floating point.  A Python float is a binary float with a bounded  *)
(* significand; a weight in [0, 1] is modelled as a multiple m of           *)
(* 2^-FracBits (m in 0..One) that has at most Precision significant bits,   *)
(* and every arithmetic result is rounded to the nearest such value, ties   *)
(* to even.                                                                 *)

FracBits == 5
Precision == 3

RECURSIVE Pow2(_)
Pow2(n) == IF n <= 0 THEN 1 ELSE 2 * Pow2(n - 1)

RECURSIVE FloorLog2(_)
FloorLog2(x) == IF x <= 1 THEN 0 ELSE 1 + FloorLog2(x \div 2)

One == Pow2(FracBits)

\* float('nan'): compares false with everything, absorbs arithmetic
NaN == 0 - 1

Ulp(x) == IF x < Pow2(Precision) THEN 1 ELSE Pow2(FloorLog2(x) - Precision + 1)

RoundNearestEven(x) ==
    LET u == Ulp(x)
        q == x \div u
        r == x % u
    IN  IF 2 * r < u THEN q * u
        ELSE IF 2 * r > u THEN (q + 1) * u
        ELSE IF q % 2 = 0 THEN q * u ELSE (q + 1) * u

Floats == {x \in 0..One : RoundNearestEven(x) = x}

\* a - b on floats, for 0 <= b <= a <= One
FloatSub(a, b) == IF a = NaN \/ b = NaN THEN NaN ELSE RoundNearestEven(a - b)

\* a + b on floats
FloatAdd(a, b) == IF a = NaN \/ b = NaN THEN NaN ELSE RoundNearestEven(a + b)

FloatLE(a, b) == a # NaN /\ b # NaN /\ a <= b
FloatGE(a, b) == a # NaN /\ b # NaN /\ a >= b

----------------------------------------------------------------------------
(* Versions are numeric strings; None is Python's None where a version is   *)
(* expected.                                                                *)

MaxVersion == 3

\* str(n) for the version numbers of the model
VersionStr == <<"1", "2", "3", "4", "5", "6", "7", "8", "9">>

Versions == {VersionStr[n] : n \in 1..MaxVersion}
None == "None"
LATEST == "$LATEST"

\* int(v) for a numeric version string
int(v) == CHOOSE n \in 1..Len(VersionStr) : VersionStr[n] = v

\* input_percent: loops until the entry parses as a float v with
\* not (v < 0 or v > 100), and returns v / 100; "nan" passes both tests.
input_percent == Floats \cup {NaN}

\* the dataclass Alias
Alias(primary_version, secondary_version, secondary_weight) ==
    [primary_version |-> primary_version,
     secondary_version |-> secondary_version,
     secondary_weight |-> secondary_weight]

\* Alias(primary_version=v): the field defaults
AliasOf(primary_version) == Alias(primary_version, None, 0)

\* get_weight with the primary's share not reduced by the secondary's
get_weight_full_primary(self, version) ==
    IF version = self.secondary_version THEN self.secondary_weight
    ELSE IF version = self.primary_version THEN One
    ELSE 0

get_weight(self, version) ==
    IF version = self.secondary_version THEN self.secondary_weight
    ELSE IF version = self.primary_version THEN FloatSub(One, self.secondary_weight)
    ELSE 0

\* normalized collapsing to the primary version at both ends
normalized_keep_primary(self) ==
    IF FloatLE(self.secondary_weight, 0) THEN AliasOf(self.primary_version)
    ELSE IF FloatGE(self.secondary_weight, One) THEN AliasOf(self.primary_version)
    ELSE self

\* normalized swapping the two versions of a full shift instead of dropping one
normalized_swap(self) ==
    IF FloatLE(self.secondary_weight, 0) THEN AliasOf(self.primary_version)
    ELSE IF FloatGE(self.secondary_weight, One)
         THEN Alias(self.secondary_version, self.primary_version,
                    FloatSub(One, self.secondary_weight))
    ELSE self

normalized(self) ==
    IF FloatLE(self.secondary_weight, 0) THEN AliasOf(self.primary_version)
    ELSE IF FloatGE(self.secondary_weight, One) THEN AliasOf(self.secondary_version)
    ELSE self

\* the __eq__ that dataclass generates: the tuples of the three fields,
\* compared item by item; nan equals no float, itself included
eq(self, other) ==
    /\ self.primary_version = other.primary_version
    /\ self.secondary_version = other.secondary_version
    /\ self.secondary_weight = other.secondary_weight
    /\ self.secondary_weight # NaN

versions(self) ==
    IF self.secondary_version # None
    THEN <<self.primary_version, self.secondary_version>>
    ELSE <<self.primary_version>>

\* frozenset([] if current_alias is None else current_alias.versions()),
\* current_alias being <<>> for None
alias_versions(current_alias) ==
    IF current_alias = <<>> THEN {}
    ELSE {versions(current_alias[1])[i] : i \in 1..Len(versions(current_alias[1]))}

\* the sort key (value[1] in alias_versions, int(value[1])); False is 0, True is 1
sort_key(v, aliased) == <<IF v \in aliased THEN 1 ELSE 0, int(v)>>

\* k1 < k2 for two such tuples
key_less(k1, k2) == k1[1] < k2[1] \/ (k1[1] = k2[1] /\ k1[2] < k2[2])

RECURSIVE sorted_reversed(_, _)
\* sorted(..., key=sort_key, reverse=True) of a set of versions
sorted_reversed(vs, aliased) ==
    IF vs = {} THEN <<>>
    ELSE LET first == CHOOSE v \in vs : \A u \in vs \ {v} :
                          key_less(sort_key(u, aliased), sort_key(v, aliased))
         IN  <<first>> \o sorted_reversed(vs \ {first}, aliased)

\* the order with the sort key reduced to int(value[1])
versions_to_show_by_int(available_versions, current_alias) ==
    sorted_reversed(available_versions, {})

\* versions_to_show, as the versions the entries stand for
versions_to_show(available_versions, current_alias) ==
    sorted_reversed(available_versions, alias_versions(current_alias))

\* from_versions taking the input as the secondary version's weight
from_versions_uninverted(vs, w) ==
    IF Len(vs) = 1 THEN AliasOf(vs[1])
    ELSE normalized(Alias(vs[1], vs[2], w))

\* from_versions(*versions) with w the value input_percent returns
from_versions(vs, w) ==
    IF Len(vs) = 1 THEN AliasOf(vs[1])
    ELSE normalized(Alias(vs[1], vs[2], FloatSub(One, w)))

\* a description is [FunctionVersion, AdditionalVersionWeights], the latter
\* a sequence of <<version, weight>> items in the mapping's order;
\* the result is <<>> for None and <<alias>> otherwise
from_description(description) ==
    IF description.FunctionVersion = LATEST THEN <<>>
    ELSE LET additional == description.AdditionalVersionWeights
             pair == IF additional # <<>> THEN additional[1] ELSE <<None, 0>>
         IN  <<Alias(description.FunctionVersion, pair[1], pair[2])>>

\* the operation record before any Alias method was applied
NoArgs == [versions |-> <<>>, weight |-> 0, self |-> AliasOf(None),
           other |-> AliasOf(None), available_versions |-> {}, current_alias |-> <<>>]

NoWeights == [v \in Versions |-> 0]

----------------------------------------------------------------------------
(* deploy_function.py: the alias `current` in Lambda, get_alias, set_alias. *)

Functions == {"fn1", "fn2"}
Runs == {"run1", "run2"}

\* get_versions: the published versions of each function, $LATEST left out;
\* fn1 has every version, fn2 a single one
get_versions(f) == IF f = "fn1" THEN Versions ELSE {VersionStr[1]}

\* a description as get_alias and update_alias return it; the mapping
\* RoutingConfig.AdditionalVersionWeights is a sequence of <<version, weight>>
Description(function_version, additional, revision_id) ==
    [FunctionVersion |-> function_version,
     AdditionalVersionWeights |-> additional,
     RevisionId |-> revision_id]

\* no alias named `current`: get_alias raises ResourceNotFoundException
NoSuchAlias == [exists |-> FALSE, description |-> Description(None, <<>>, 0)]

AliasRecord(description) == [exists |-> TRUE, description |-> description]

\* text, one character per element
LowerCase == <<"a", "b", "c", "d", "e", "f", "g", "h", "i", "j", "k", "l", "m",
               "n", "o", "p", "q", "r", "s", "t", "u", "v", "w", "x", "y", "z">>
UpperCase == <<"A", "B", "C", "D", "E", "F", "G", "H", "I", "J", "K", "L", "M",
               "N", "O", "P", "Q", "R", "S", "T", "U", "V", "W", "X", "Y", "Z">>

\* str.lower()
lower(text) ==
    [i \in 1..Len(text) |->
        IF \E k \in 1..Len(UpperCase) : UpperCase[k] = text[i]
        THEN LowerCase[CHOOSE k \in 1..Len(UpperCase) : UpperCase[k] = text[i]]
        ELSE text[i]]

\* `part in text`
contains(text, part) ==
    \E i \in 0..(Len(text) - Len(part)) : SubSeq(text, i + 1, i + Len(part)) = part

\* the message of Lambda's PreconditionFailedException for a stale RevisionId
RevisionMessage ==
    <<"T", "h", "e", " ", "R", "e", "v", "i", "s", "i", "o", "n", " ", "I", "d", " ",
      "p", "r", "o", "v", "i", "d", "e", "d", " ", "d", "o", "e", "s", " ",
      "n", "o", "t", " ", "m", "a", "t", "c", "h">>

\* the message of a precondition failure that is not about the revision
OtherPreconditionMessage ==
    <<"P", "r", "e", "c", "o", "n", "d", "i", "t", "i", "o", "n", " ",
      "f", "a", "i", "l", "e", "d">>

NoMessage == <<>>

\* the ways the request itself can fail, whatever the revision
Faults == {"none", "PreconditionFailedException", "ServiceException"}

\* the answer of update_alias: the exception raised, if any, its message, and
\* the description returned
Answer(error, message, description) ==
    [error |-> error, message |-> message, description |-> description]

NoAnswer == Answer("not called", NoMessage, Description(None, <<>>, 0))

\* client.update_alias as Lambda executes it on an alias record: compare
\* RevisionId and, on a match, replace the routing and issue the next RevisionId
update_alias(record, function_version, additional, revision_id, fault, fresh) ==
    IF fault = "ServiceException"
    THEN [answer |-> Answer("ServiceException", NoMessage, record.description),
          record |-> record]
    ELSE IF fault = "PreconditionFailedException"
    THEN [answer |-> Answer("PreconditionFailedException", OtherPreconditionMessage,
                            record.description),
          record |-> record]
    ELSE IF ~record.exists
    THEN [answer |-> Answer("ResourceNotFoundException", NoMessage, record.description),
          record |-> record]
    ELSE IF \E i \in 1..Len(additional) : additional[i][2] = NaN
    THEN [answer |-> Answer("InvalidParameterValueException", NoMessage,
                            record.description),
          record |-> record]
    ELSE IF revision_id # record.description.RevisionId
    THEN [answer |-> Answer("PreconditionFailedException", RevisionMessage,
                            record.description),
          record |-> record]
    ELSE [answer |-> Answer("none", NoMessage,
                            Description(function_version, additional, fresh)),
          record |-> AliasRecord(Description(function_version, additional, fresh))]

\* the memo entry of get_alias: not called yet, None, or (alias, RevisionId)
NotCalled == [called |-> FALSE, found |-> FALSE, alias |-> <<>>, RevisionId |-> 0]

\* get_alias: None when the alias does not exist, else the parsed alias and
\* the RevisionId
get_alias(record) ==
    IF ~record.exists
    THEN [called |-> TRUE, found |-> FALSE, alias |-> <<>>, RevisionId |-> 0]
    ELSE [called |-> TRUE, found |-> TRUE,
          alias |-> from_description(record.description),
          RevisionId |-> record.description.RevisionId]

\* the discovery keeping only the functions whose alias names a version
has_alias_with_version(entry) == entry.found /\ entry.alias # <<>>

\* `get_alias(client, func) is not None`, for the memo's entry
has_alias(entry) == entry.found

\* the RoutingConfig without the secondary version
routing_config_empty(a) == <<>>

\* RoutingConfig=dict(AdditionalVersionWeights={...} if secondary else {})
routing_config(a) ==
    IF a.secondary_version # None
    THEN <<<<a.secondary_version, a.secondary_weight>>>>
    ELSE <<>>

\* the test of set_alias's except clause without .lower()
is_revision_conflict_case_sensitive(message) ==
    contains(message, <<"r", "e", "v", "i", "s", "i", "o", "n", " ", "i", "d">>)

\* `'revision id' in err.response['message'].lower()`
is_revision_conflict(message) ==
    contains(lower(message), <<"r", "e", "v", "i", "s", "i", "o", "n", " ", "i", "d">>)

\* the guard of the update taken from the alias as it is now
guard_revision_latest(read_revision_id, current_revision_id) == current_revision_id

\* `revision_id=alias_revision_id`: the guard of the update is the RevisionId
\* that get_alias returned
guard_revision(read_revision_id, current_revision_id) == read_revision_id

\* set_alias taking every PreconditionFailedException for the update conflict
set_alias_any_precondition(answer) ==
    IF answer.error = "PreconditionFailedException"
    THEN [raised |-> "none", returned |-> <<>>]
    ELSE IF answer.error # "none"
    THEN [raised |-> answer.error, returned |-> <<>>]
    ELSE [raised |-> "none", returned |-> from_description(answer.description)]

\* set_alias after update_alias answered: what it returns (<<>> for None) or
\* raises
set_alias(answer) ==
    IF answer.error = "PreconditionFailedException"
    THEN IF ~is_revision_conflict(answer.message)
         THEN [raised |-> answer.error, returned |-> <<>>]
         ELSE [raised |-> "none", returned |-> <<>>]
    ELSE IF answer.error # "none"
    THEN [raised |-> answer.error, returned |-> <<>>]
    ELSE [raised |-> "none", returned |-> from_description(answer.description)]

\* how main ended: the exit status, the reason, and what set_alias returned
Ended(exit, why, returned) == [exit |-> exit, why |-> why, returned |-> returned]

NotEnded == Ended("none", "running", <<>>)

\* what the operator can enter at the weight prompt in the runs of the
\* model: 0, the smallest weight, a half, 100, and nan
WeightEntries == {0, 1, One \div 2, One, NaN}

----------------------------------------------------------------------------
(* update_code.py: the digest of a bundle and the conditional upload.  Text *)
(* is a sequence of one-character strings.                                  *)

MaxPayloadLen == 1

\* one byte value: the bundles of the model differ in length
Bytes == {0}

RECURSIVE SeqsUpTo(_, _)
SeqsUpTo(S, n) ==
    IF n = 0 THEN {<<>>}
    ELSE LET shorter == SeqsUpTo(S, n - 1)
         IN  shorter \cup {Append(q, x) : q \in {t \in shorter : Len(t) = n - 1}, x \in S}

\* the bundles bundle_function can return: byte strings
Payloads == SeqsUpTo(Bytes, MaxPayloadLen)

\* the hash is as wide as the longest payload needs, so that it is
\* collision free on Payloads as sha256 is taken to be on real bundles
HashDigits == MaxPayloadLen + 1
HashBase == Cardinality(Bytes) + 1

RECURSIVE sha256(_)
sha256(data) ==
    IF data = <<>> THEN 0
    ELSE (sha256(SubSeq(data, 1, Len(data) - 1)) * HashBase + data[Len(data)] + 1)
             % (HashBase ^ HashDigits)

Base64UrlAlphabet == <<"A", "B", "C", "D", "E", "F", "G", "H">>

\* base64.urlsafe_b64encode of a hash: its digits, most significant first,
\* and the padding
urlsafe_b64encode(h) ==
    [i \in 1..HashDigits |->
        Base64UrlAlphabet[((h \div (HashBase ^ (HashDigits - i))) % HashBase) + 1]]
    \o <<"=">>

\* bytes.rstrip(chars)
RECURSIVE rstrip(_, _)
rstrip(text, chars) ==
    IF text # <<>> /\ text[Len(text)] \in chars
    THEN rstrip(SubSeq(text, 1, Len(text) - 1), chars)
    ELSE text

\* the digest of an exhausted stream: value.read() after the position moved
compute_digest_of_rest(data) == rstrip(urlsafe_b64encode(sha256(<<>>)), {"="})

compute_digest(data) == rstrip(urlsafe_b64encode(sha256(data)), {"="})

\* what `git rev-parse HEAD` prints, and whether `git status` prints anything
GitHeads == {<<"0", "1", "2", "3", "4", "5", "6", "7", "8", "9", "a", "b">>}

\* revision_sha[:9] + (' (dirty)' if is_dirty else '')
revision(revision_sha, is_dirty) ==
    SubSeq(revision_sha, 1, 9)
    \o (IF is_dirty THEN <<" ", "(", "d", "i", "r", "t", "y", ")">> ELSE <<>>)

\* Metadata is a set of <<key, value>> items; {} is the empty mapping
NoMetadata == {}

\* the object Terraform created, before any upload: absent, or a body
\* without a digest in its Metadata
Absent == [exists |-> FALSE, Body |-> <<>>, Metadata |-> NoMetadata]

StoredObject(body, meta) == [exists |-> TRUE, Body |-> body, Metadata |-> meta]

\* the error codes of a failed head_object: not found, forbidden, and the rest
ErrorCodes == {"404", "403", "500"}

\* the codes upload_if_changed does not re-raise, with 403 left out
tolerated_codes_404_only == {"404"}

\* `str(err.response['Error']['Code']) not in ('403', '404')`
tolerated_codes == {"403", "404"}

\* head_object as the store answers it: the Metadata, or the code of a
\* ClientError; "500" stands for every failure of the request itself
head_object(obj, readable) ==
    {"500"}
    \cup (IF ~readable THEN {"403"} ELSE IF ~obj.exists THEN {"404"} ELSE {"ok"})

\* next((v for k, v in metadata.items() if k.lower() == 'digest'), None):
\* <<>> for None, <<v>> otherwise
prev_digest(meta) ==
    IF \E item \in meta : item[1] = "digest"
    THEN <<(CHOOSE item \in meta : item[1] = "digest")[2]>>
    ELSE <<>>

\* the upload tagging the object with the digest of the exhausted stream
upload_fileobj_stale_digest(data, revision_sha, is_dirty) ==
    StoredObject(data, {<<"digest", compute_digest_of_rest(data)>>,
                        <<"revision", revision(revision_sha, is_dirty)>>})

\* s3.upload_fileobj(Fileobj=value, ..., Metadata=dict(digest=, revision=))
upload_fileobj(data, revision_sha, is_dirty) ==
    StoredObject(data, {<<"digest", compute_digest(data)>>,
                        <<"revision", revision(revision_sha, is_dirty)>>})

\* the comparison that always finds a change
changed_always(prev, new_digest) == TRUE

\* `prev_digest != new_digest`
changed(prev, new_digest) == prev # <<new_digest>>

Publishers == {"p1", "p2"}

PubInit ==
    /\ object \in {Absent} \cup {StoredObject(b, NoMetadata) : b \in Payloads}
    /\ ppc = [p \in Publishers |-> "start"]
    /\ value = [p \in Publishers |-> <<>>]
    /\ metadata = [p \in Publishers |-> NoMetadata]
    /\ head = [p \in Publishers |-> "none"]
    /\ outcome = [p \in Publishers |-> "none"]
    /\ can_read \in [Publishers -> BOOLEAN]
    /\ stored_at_head = [p \in Publishers |-> FALSE]
    /\ undisturbed = [p \in Publishers |-> TRUE]
    /\ began_after = [p \in Publishers |-> FALSE]
    /\ last_done = <<>>
    /\ alias = AliasOf(VersionStr[1])
    /\ op = "init"
    /\ args = NoArgs
    /\ ret = NoWeights
    /\ equal = FALSE
    /\ shown = <<>>
    /\ remote = [f \in Functions |-> NoSuchAlias]
    /\ revisions = 0
    /\ pc = [r \in Runs |-> "done"]
    /\ cache = [r \in Runs |-> [f \in Functions |-> NotCalled]]
    /\ function_name = [r \in Runs |-> None]
    /\ new_alias = [r \in Runs |-> AliasOf(None)]
    /\ answered = [r \in Runs |-> NoAnswer]
    /\ result = [r \in Runs |-> NotEnded]
    /\ functions = [r \in Runs |-> {}]
    /\ updates = [r \in Runs |-> 0]

\* upload_if_changed, the read: s3.head_object and its except clause; a
\* publisher whose call has ended runs the script again
HeadObject(p, data, response) ==
    /\ ppc[p] \in {"start", "returned", "raised"}
    /\ response \in head_object(object, can_read[p])
    /\ value' = [value EXCEPT ![p] = data]
    /\ head' = [head EXCEPT ![p] = response]
    /\ stored_at_head' = [stored_at_head EXCEPT
            ![p] = (prev_digest(object.Metadata) = <<compute_digest(data)>>)]
    /\ undisturbed' = [undisturbed EXCEPT ![p] = TRUE]
    /\ began_after' = [began_after EXCEPT ![p] = (last_done = <<data>>)]
    /\ IF response = "ok"
       THEN /\ metadata' = [metadata EXCEPT ![p] = object.Metadata]
            /\ ppc' = [ppc EXCEPT ![p] = "compare"]
            /\ outcome' = [outcome EXCEPT ![p] = "none"]
       ELSE IF response \in tolerated_codes
       THEN /\ metadata' = [metadata EXCEPT ![p] = NoMetadata]
            /\ ppc' = [ppc EXCEPT ![p] = "compare"]
            /\ outcome' = [outcome EXCEPT ![p] = "none"]
       ELSE /\ metadata' = [metadata EXCEPT ![p] = NoMetadata]
            /\ ppc' = [ppc EXCEPT ![p] = "raised"]
            /\ outcome' = [outcome EXCEPT ![p] = response]
    /\ UNCHANGED <<object, can_read, last_done>>
    /\ UNCHANGED <<aliasVars, depVars>>

\* the return of False that first refreshes the object's Metadata
SkipRefreshing(p) ==
    /\ ppc[p] = "compare"
    /\ ~changed(prev_digest(metadata[p]), compute_digest(value[p]))
    /\ object' = [object EXCEPT !.Metadata = {<<"digest", compute_digest(value[p])>>}]
    /\ ppc' = [ppc EXCEPT ![p] = "returned"]
    /\ outcome' = [outcome EXCEPT ![p] = "Skipped"]
    /\ last_done' = IF undisturbed[p] THEN <<value[p]>> ELSE last_done
    /\ UNCHANGED <<value, metadata, head, can_read,
                   stored_at_head, undisturbed, began_after>>
    /\ UNCHANGED <<aliasVars, depVars>>

\* upload_if_changed, the digests being equal: return False
Skip(p) ==
    /\ ppc[p] = "compare"
    /\ ~changed(prev_digest(metadata[p]), compute_digest(value[p]))
    /\ ppc' = [ppc EXCEPT ![p] = "returned"]
    /\ outcome' = [outcome EXCEPT ![p] = "Skipped"]
    /\ last_done' = IF undisturbed[p] THEN <<value[p]>> ELSE last_done
    /\ UNCHANGED <<object, value, metadata, head, can_read,
                   stored_at_head, undisturbed, began_after>>
    /\ UNCHANGED <<aliasVars, depVars>>

\* upload_if_changed, the digests differing: the git calls, the upload,
\* return True
Upload(p, revision_sha, is_dirty) ==
    /\ ppc[p] = "compare"
    /\ changed(prev_digest(metadata[p]), compute_digest(value[p]))
    /\ object' = upload_fileobj(value[p], revision_sha, is_dirty)
    /\ ppc' = [ppc EXCEPT ![p] = "returned"]
    /\ outcome' = [outcome EXCEPT ![p] = "Published"]
    /\ undisturbed' = [q \in Publishers |-> IF q = p THEN undisturbed[q] ELSE FALSE]
    /\ last_done' = <<value[p]>>
    /\ UNCHANGED <<value, metadata, head, can_read, stored_at_head, began_after>>
    /\ UNCHANGED <<aliasVars, depVars>>

\* upload_if_changed, the digests differing: a git call or the upload raises
UploadRaises(p) ==
    /\ ppc[p] = "compare"
    /\ changed(prev_digest(metadata[p]), compute_digest(value[p]))
    /\ ppc' = [ppc EXCEPT ![p] = "raised"]
    /\ outcome' = [outcome EXCEPT ![p] = "upload failed"]
    /\ UNCHANGED <<object, value, metadata, head, can_read,
                   stored_at_head, undisturbed, began_after, last_done>>
    /\ UNCHANGED <<aliasVars, depVars>>

PubNext ==
    \/ \E p \in Publishers, data \in Payloads, response \in {"ok"} \cup ErrorCodes :
            HeadObject(p, data, response)
    \/ \E p \in Publishers : Skip(p)
    \/ \E p \in Publishers, revision_sha \in GitHeads, is_dirty \in BOOLEAN :
            Upload(p, revision_sha, is_dirty)
    \/ \E p \in Publishers : UploadRaises(p)

----------------------------------------------------------------------------
(* The Alias value object on its own: every Alias the program constructs,   *)
(* and the operations applied to it.                                        *)

\* the selections main passes to from_versions: one version, or two
\* distinct ones sorted by int, descending
Selections ==
    {<<v>> : v \in Versions}
    \cup {<<v1, v2>> : <<v1, v2>> \in {p \in Versions \X Versions : int(p[1]) > int(p[2])}}

\* the Alias objects the constructor calls of from_versions and
\* from_description build: one version, or two distinct versions and a weight
AliasValues ==
    {AliasOf(v) : v \in Versions}
    \cup {Alias(p[1], p[2], w) :
            p \in {q \in Versions \X Versions : q[1] # q[2]}, w \in input_percent}

AliasInit ==
    /\ alias \in AliasValues
    /\ op = "init"
    /\ args = NoArgs
    /\ ret = NoWeights
    /\ equal = FALSE
    /\ shown = <<>>
    /\ object = Absent
    /\ ppc = [p \in Publishers |-> "start"]
    /\ value = [p \in Publishers |-> <<>>]
    /\ metadata = [p \in Publishers |-> NoMetadata]
    /\ head = [p \in Publishers |-> "none"]
    /\ outcome = [p \in Publishers |-> "none"]
    /\ can_read = [p \in Publishers |-> TRUE]
    /\ stored_at_head = [p \in Publishers |-> FALSE]
    /\ undisturbed = [p \in Publishers |-> TRUE]
    /\ began_after = [p \in Publishers |-> FALSE]
    /\ last_done = <<>>
    /\ remote = [f \in Functions |-> NoSuchAlias]
    /\ revisions = 0
    /\ pc = [r \in Runs |-> "done"]
    /\ cache = [r \in Runs |-> [f \in Functions |-> NotCalled]]
    /\ function_name = [r \in Runs |-> None]
    /\ new_alias = [r \in Runs |-> AliasOf(None)]
    /\ answered = [r \in Runs |-> NoAnswer]
    /\ result = [r \in Runs |-> NotEnded]
    /\ functions = [r \in Runs |-> {}]
    /\ updates = [r \in Runs |-> 0]

FromVersions(vs, w) ==
    /\ op \notin {"__eq__", "versions_to_show"}
    /\ alias' = from_versions(vs, w)
    /\ op' = "from_versions"
    /\ args' = [NoArgs EXCEPT !.versions = vs, !.weight = w]
    /\ ret' = NoWeights
    /\ equal' = FALSE
    /\ shown' = <<>>
    /\ UNCHANGED <<pubVars, depVars>>

Normalized ==
    /\ op \notin {"__eq__", "versions_to_show"}
    /\ alias' = normalized(alias)
    /\ op' = "normalized"
    /\ args' = [NoArgs EXCEPT !.self = alias]
    /\ ret' = NoWeights
    /\ equal' = FALSE
    /\ shown' = <<>>
    /\ UNCHANGED <<pubVars, depVars>>

\* get_weight of the alias, for every version
GetWeight ==
    /\ op \notin {"__eq__", "versions_to_show"}
    /\ ret' = [v \in Versions |-> get_weight(alias, v)]
    /\ op' = "get_weight"
    /\ args' = [NoArgs EXCEPT !.self = alias]
    /\ alias' = alias
    /\ equal' = FALSE
    /\ shown' = <<>>
    /\ UNCHANGED <<pubVars, depVars>>

\* self == other, for a constructed alias and any other Alias; the
\* comparison ends the evaluation
Equals(other) ==
    /\ op = "init"
    /\ equal' = eq(alias, other)
    /\ shown' = <<>>
    /\ op' = "__eq__"
    /\ args' = [NoArgs EXCEPT !.self = alias, !.other = other]
    /\ ret' = NoWeights
    /\ alias' = alias
    /\ UNCHANGED <<pubVars, depVars>>

\* the catalogs get_versions can return to main past the len <= 1 test
Catalogs ==
    {c \in SUBSET {VersionStr[n] : n \in 1..(MaxVersion + 2)} : Cardinality(c) > 1}

\* the list main shows for selection, for a catalog and the current alias
\* (None when `current` points at $LATEST)
VersionsToShow(available_versions, current_alias) ==
    /\ op = "init"
    /\ shown' = versions_to_show(available_versions, current_alias)
    /\ op' = "versions_to_show"
    /\ args' = [NoArgs EXCEPT !.available_versions = available_versions,
                              !.current_alias = current_alias]
    /\ ret' = NoWeights
    /\ equal' = FALSE
    /\ alias' = alias
    /\ UNCHANGED <<pubVars, depVars>>

AliasNext ==
    \/ \E vs \in Selections, w \in input_percent : FromVersions(vs, w)
    \/ Normalized
    \/ GetWeight
    \/ \E other \in AliasValues : Equals(other)
    \/ \E c \in Catalogs, current \in {<<>>, <<alias>>} : VersionsToShow(c, current)

SpecAlias == AliasInit /\ [][AliasNext]_vars

SpecPublish == PubInit /\ [][PubNext]_vars

----------------------------------------------------------------------------
(* Runs of deploy_function.py against the alias `current` of each function. *)

\* the aliases the functions have when the runs start
InitialAliases(f) ==
    IF f = "fn1"
    THEN {AliasRecord(Description(VersionStr[1], <<>>, 1)),
          AliasRecord(Description(VersionStr[2], <<<<VersionStr[1], One \div 2>>>>, 1)),
          AliasRecord(Description(VersionStr[1], <<<<VersionStr[2], One \div 2>>>>, 1)),
          AliasRecord(Description(LATEST, <<>>, 1)),
          NoSuchAlias}
    ELSE {AliasRecord(Description(VersionStr[1], <<>>, 2)), NoSuchAlias}

\* what fzf(..., multi=2) can return from the versions shown: none, one, or
\* two of them, in either order
SelectionsOf(available) ==
    {<<>>} \cup {<<v>> : v \in available}
    \cup {<<p[1], p[2]>> : p \in {q \in available \X available : q[1] # q[2]}}

\* selected_versions.sort(key=int, reverse=True), for up to two versions
sort_by_int_reversed(sel) ==
    IF Len(sel) = 2 /\ int(sel[1]) < int(sel[2]) THEN <<sel[2], sel[1]>> ELSE sel

DepInit ==
    /\ remote \in [Functions -> UNION {InitialAliases(f) : f \in Functions}]
    /\ \A f \in Functions : remote[f] \in InitialAliases(f)
    /\ revisions = 2
    /\ pc = [r \in Runs |-> "discover"]
    /\ cache = [r \in Runs |-> [f \in Functions |-> NotCalled]]
    /\ function_name = [r \in Runs |-> None]
    /\ new_alias = [r \in Runs |-> AliasOf(None)]
    /\ answered = [r \in Runs |-> NoAnswer]
    /\ result = [r \in Runs |-> NotEnded]
    /\ functions = [r \in Runs |-> {}]
    /\ updates = [r \in Runs |-> 0]
    /\ alias = AliasOf(VersionStr[1])
    /\ op = "init"
    /\ args = NoArgs
    /\ ret = NoWeights
    /\ equal = FALSE
    /\ shown = <<>>
    /\ object = Absent
    /\ ppc = [p \in Publishers |-> "start"]
    /\ value = [p \in Publishers |-> <<>>]
    /\ metadata = [p \in Publishers |-> NoMetadata]
    /\ head = [p \in Publishers |-> "none"]
    /\ outcome = [p \in Publishers |-> "none"]
    /\ can_read = [p \in Publishers |-> TRUE]
    /\ stored_at_head = [p \in Publishers |-> FALSE]
    /\ undisturbed = [p \in Publishers |-> TRUE]
    /\ began_after = [p \in Publishers |-> FALSE]
    /\ last_done = <<>>

\* the discovery with get_alias not memoized: every call reads the alias
GetAliasUncached(r, f) ==
    /\ pc[r] = "discover"
    /\ cache' = [cache EXCEPT ![r][f] = get_alias(remote[f])]
    /\ UNCHANGED <<remote, revisions, pc, function_name, new_alias, answered, result>>
    /\ UNCHANGED <<functions, updates>>
    /\ UNCHANGED <<aliasVars, pubVars>>

\* main, the discovery: one get_alias per listed function, on the thread pool
GetAlias(r, f) ==
    /\ pc[r] = "discover"
    /\ ~cache[r][f].called
    /\ cache' = [cache EXCEPT ![r][f] = get_alias(remote[f])]
    /\ UNCHANGED <<remote, revisions, pc, function_name, new_alias, answered, result>>
    /\ UNCHANGED <<functions, updates>>
    /\ UNCHANGED <<aliasVars, pubVars>>

\* main from the end of the discovery to the call of set_alias: the function
\* (named on the command line when given, picked with fzf otherwise), its
\* versions, the memoized alias, the selection and the proposed alias
Select(r, given, f, sel, w) ==
    /\ pc[r] = "discover"
    /\ \A g \in Functions : cache[r][g].called
    /\ functions' = [functions EXCEPT ![r] = {g \in Functions : has_alias(cache[r][g])}]
    /\ LET available == get_versions(f)
           current_alias == cache[r][f].alias
           normalized_current_alias ==
               IF current_alias = <<>> THEN <<>> ELSE <<normalized(current_alias[1])>>
           selected_versions == sort_by_int_reversed(sel)
           proposed == from_versions(selected_versions, w)
           end(exit, why) ==
               /\ pc' = [pc EXCEPT ![r] = "done"]
               /\ result' = [result EXCEPT ![r] = Ended(exit, why, <<>>)]
       IN  IF ~given /\ functions'[r] = {}
           THEN /\ f = CHOOSE g \in Functions : TRUE
                /\ sel = <<>> /\ w = 0
                /\ end("0", "no functions found")
                /\ UNCHANGED <<function_name, new_alias>>
           ELSE /\ given \/ f \in functions'[r]
                /\ function_name' = [function_name EXCEPT ![r] = f]
                /\ IF Cardinality(available) <= 1
                   THEN /\ sel = <<>> /\ w = 0
                        /\ end("0", "no deployment options available")
                        /\ UNCHANGED new_alias
                   ELSE IF ~cache[r][f].found
                   THEN /\ sel = <<>> /\ w = 0
                        /\ end("traceback", "TypeError")
                        /\ UNCHANGED new_alias
                   ELSE /\ sel \in SelectionsOf(available)
                        /\ (Len(sel) # 2 => w = 0)
                        /\ IF Len(sel) = 0
                           THEN /\ end("0", "no versions selected for deployment")
                                /\ UNCHANGED new_alias
                           ELSE /\ new_alias' = [new_alias EXCEPT ![r] = proposed]
                                /\ IF /\ normalized_current_alias # <<>>
                                      /\ eq(normalized_current_alias[1], proposed)
                                   THEN end("0", "requested traffic routing matches current alias")
                                   ELSE /\ pc' = [pc EXCEPT ![r] = "commit"]
                                        /\ UNCHANGED result
    /\ UNCHANGED <<remote, revisions, cache, answered, updates>>
    /\ UNCHANGED <<aliasVars, pubVars>>

\* the return of main reading the alias again and calling set_alias once
\* more after an update conflict
CommitRetrying(r, fault) ==
    /\ pc[r] = "commit"
    /\ LET f == function_name[r]
           done == update_alias(remote[f],
                                new_alias[r].primary_version,
                                routing_config(new_alias[r]),
                                guard_revision(cache[r][f].RevisionId,
                                               remote[f].description.RevisionId),
                                fault,
                                revisions + 1)
           got == set_alias(done.answer)
           conflict == got.raised = "none" /\ got.returned = <<>>
       IN  /\ remote' = [remote EXCEPT ![f] = done.record]
           /\ revisions' = IF done.answer.error = "none" THEN revisions + 1 ELSE revisions
           /\ answered' = [answered EXCEPT ![r] = done.answer]
           /\ result' = [result EXCEPT ![r] =
                  IF got.raised # "none" THEN Ended("traceback", got.raised, <<>>)
                  ELSE IF conflict THEN result[r]
                  ELSE Ended("0", "updated", got.returned)]
           /\ pc' = [pc EXCEPT ![r] = IF conflict /\ updates[r] = 0 THEN "commit" ELSE "done"]
           /\ cache' = [cache EXCEPT ![r][f] = IF conflict THEN get_alias(remote[f]) ELSE @]
    /\ updates' = [updates EXCEPT ![r] = updates[r] + 1]
    /\ UNCHANGED <<function_name, new_alias, functions>>
    /\ UNCHANGED <<aliasVars, pubVars>>

\* main, the return: set_alias, and 1 if it returned None, else 0
Commit(r, fault) ==
    /\ pc[r] = "commit"
    /\ LET f == function_name[r]
           done == update_alias(remote[f],
                                new_alias[r].primary_version,
                                routing_config(new_alias[r]),
                                guard_revision(cache[r][f].RevisionId,
                                               remote[f].description.RevisionId),
                                fault,
                                revisions + 1)
           got == set_alias(done.answer)
       IN  /\ remote' = [remote EXCEPT ![f] = done.record]
           /\ revisions' = IF done.answer.error = "none" THEN revisions + 1 ELSE revisions
           /\ answered' = [answered EXCEPT ![r] = done.answer]
           /\ result' = [result EXCEPT ![r] =
                  IF got.raised # "none" THEN Ended("traceback", got.raised, <<>>)
                  ELSE IF got.returned = <<>> THEN Ended("1", "update conflict", <<>>)
                  ELSE Ended("0", "updated", got.returned)]
    /\ updates' = [updates EXCEPT ![r] = updates[r] + 1]
    /\ pc' = [pc EXCEPT ![r] = "done"]
    /\ UNCHANGED <<cache, function_name, new_alias, functions>>
    /\ UNCHANGED <<aliasVars, pubVars>>

Next ==
    \/ \E r \in Runs, f \in Functions : GetAlias(r, f)
    \/ \E r \in Runs, given \in BOOLEAN, f \in Functions,
          sel \in SelectionsOf(Versions), w \in WeightEntries :
            Select(r, given, f, sel, w)
    \/ \E r \in Runs, fault \in Faults : Commit(r, fault)

Spec == DepInit /\ [][Next]_vars

----------------------------------------------------------------------------
(* Claims about the Alias value object, under SpecAlias.                    *)

IsWeight(w) == w \in 0..One

ProposedSplit ==
    /\ op = "from_versions"
    /\ Len(args.versions) = 2
    /\ IsWeight(args.weight)
    /\ 0 < args.weight
    /\ args.weight < One

\* C7 as stated: from_versions with two versions [v0, v1] and an input w
\* strictly between 0 and 1 returns primary v0, secondary v1 and secondary
\* weight 1 - w, with get_weight(v0) = w and get_weight(v1) = 1 - w.
C7_AsStated ==
    ProposedSplit =>
        /\ alias.primary_version = args.versions[1]
        /\ alias.secondary_version = args.versions[2]
        /\ alias.secondary_weight = FloatSub(One, args.weight)
        /\ get_weight(alias, args.versions[1]) = args.weight
        /\ get_weight(alias, args.versions[2]) = FloatSub(One, args.weight)

\* C7 amended: with s the float 1 - w, from_versions returns
\* Alias(v0, v1, s) when s is below 1, and then get_weight(v1) = s and
\* get_weight(v0) = 1 - s, which is w itself whenever w >= 1/2; when 1 - w
\* rounds to 1 it returns the single-version alias of v1.
C7_ProposeSplit ==
    ProposedSplit =>
        LET s == FloatSub(One, args.weight)
            v0 == args.versions[1]
            v1 == args.versions[2]
        IN  IF s < One
            THEN /\ alias = Alias(v0, v1, s)
                 /\ get_weight(alias, v1) = s
                 /\ get_weight(alias, v0) = FloatSub(One, s)
                 /\ (2 * args.weight >= One => get_weight(alias, v0) = args.weight)
            ELSE alias = AliasOf(v1)

C7_Witness ==
    /\ ProposedSplit
    /\ 2 * args.weight >= One
    /\ alias.secondary_version = args.versions[2]
    /\ alias.secondary_weight = One - args.weight

\* C8: from_versions([v0, v1]) with input 0 is the single-version alias of
\* v1 and with input 1 that of v0; normalized maps a secondary weight <= 0
\* to the single-version alias of the primary and one >= 1 to that of the
\* secondary, with no secondary version and weight 0.
C8_FullShiftCollapse ==
    /\ (op = "from_versions" /\ Len(args.versions) = 2 /\ args.weight = 0)
            => alias = Alias(args.versions[2], None, 0)
    /\ (op = "from_versions" /\ Len(args.versions) = 2 /\ args.weight = One)
            => alias = Alias(args.versions[1], None, 0)
    /\ (op = "normalized" /\ FloatLE(args.self.secondary_weight, 0))
            => alias = Alias(args.self.primary_version, None, 0)
    /\ (op = "normalized" /\ FloatGE(args.self.secondary_weight, One))
            => alias = Alias(args.self.secondary_version, None, 0)

C8_Witness ==
    /\ op = "from_versions"
    /\ Len(args.versions) = 2
    /\ args.weight = 0
    /\ alias.primary_version = args.versions[2]
    /\ alias.secondary_version = None

\* C9: normalized is idempotent: an alias that normalized returned is
\* returned unchanged by normalized.
C9_NormalizeIdempotent ==
    op = "normalized" => normalized(alias) = alias

C9_Witness ==
    /\ op = "normalized"
    /\ args.self.secondary_version # None
    /\ args.self.secondary_weight = One
    /\ alias # args.self

\* C10: for an alias with a secondary weight in [0, 1] the weights of the
\* primary and the secondary add up to 1 when there is a secondary, the
\* primary of a single-version alias has weight 1, every other version has
\* weight 0, and the primary's weight is 1 - secondary_weight.
C10_WeightsSumToOne ==
    (op = "get_weight" /\ IsWeight(alias.secondary_weight)) =>
        /\ alias.secondary_version # None =>
                FloatAdd(ret[alias.primary_version], ret[alias.secondary_version]) = One
        /\ (alias.secondary_version = None /\ alias.secondary_weight = 0) =>
                ret[alias.primary_version] = One
        /\ \A v \in Versions \ {alias.primary_version, alias.secondary_version} :
                ret[v] = 0
        /\ ret[alias.primary_version] = FloatSub(One, alias.secondary_weight)

C10_Witness ==
    /\ op = "get_weight"
    /\ alias.secondary_version # None
    /\ alias.secondary_weight \in 1..(One - 1)
    /\ ret[alias.secondary_version] > 0
    /\ ret[alias.primary_version] > 0

\* the two aliases assign the same weight to every version
SameWeights(a, b) ==
    \A v \in Versions : get_weight(a, v) = get_weight(b, v)

\* C11: two aliases compare equal if and only if their normalized forms
\* assign the same weight to every version; so (a, b, w) equals
\* (b, a, 1 - w), and an alias whose secondary has weight 0 equals the
\* single-version alias of its primary.
C11_EqualIffSameWeights ==
    op = "__eq__" =>
        (equal <=> SameWeights(normalized(args.self), normalized(args.other)))

\* C12: the list shown for selection holds every version of the catalog
\* once, every version the current alias references before every version
\* it does not reference, and within each group the higher version number
\* first; the catalog {1, 2, 3, 5} under an alias referencing {2} is shown
\* as [2, 5, 3, 1].
C12_OrderForSelection ==
    op = "versions_to_show" =>
        LET catalog == args.available_versions
            referenced == alias_versions(args.current_alias)
        IN  /\ Len(shown) = Cardinality(catalog)
            /\ {shown[i] : i \in 1..Len(shown)} = catalog
            /\ \A i, j \in 1..Len(shown) :
                   i < j =>
                     \/ shown[i] \in referenced /\ shown[j] \notin referenced
                     \/ /\ (shown[i] \in referenced) = (shown[j] \in referenced)
                        /\ int(shown[i]) > int(shown[j])
            /\ (catalog = {"1", "2", "3", "5"} /\ referenced = {"2"}) =>
                   shown = <<"2", "5", "3", "1">>

\* a referenced version below an unreferenced one was listed first
C12_Witness ==
    /\ op = "versions_to_show"
    /\ args.available_versions = {"1", "2", "3", "5"}
    /\ alias_versions(args.current_alias) = {"2"}
    /\ shown[1] = "2"

----------------------------------------------------------------------------
(* Claims about upload_if_changed, under SpecPublish.                       *)

\* what a publisher's own steps change
CallState(p) == <<ppc[p], value[p], metadata[p], head[p], outcome[p]>>

\* C3 as stated: with no other writer in between, a call on an object
\* holding no or another digest returns Published, and a call that follows
\* a completed call with the same payload returns Skipped.
C3_AsStated ==
    \A p \in Publishers :
        (ppc[p] = "returned" /\ undisturbed[p]) =>
            /\ ~stored_at_head[p] => outcome[p] = "Published"
            /\ began_after[p] => outcome[p] = "Skipped"

\* C3 amended: the later call returns Skipped when its metadata read is
\* permitted; a publisher answered 403 uploads again.
C3_IdempotentWhenReadable ==
    \A p \in Publishers :
        (ppc[p] = "returned" /\ undisturbed[p]) =>
            /\ ~stored_at_head[p] => outcome[p] = "Published"
            /\ (began_after[p] /\ can_read[p]) => outcome[p] = "Skipped"
            /\ (began_after[p] /\ ~can_read[p]) => outcome[p] = "Published"

C3_Witness ==
    \E p \in Publishers :
        /\ ppc[p] = "returned"
        /\ undisturbed[p]
        /\ began_after[p]
        /\ can_read[p]
        /\ outcome[p] = "Skipped"
        /\ object.Body = value[p]

\* C4: a metadata read answered 404 or 403 counts as no existing digest and
\* the call goes on to the upload, returning Published; a read failing with
\* another code ends the call with that error and without an upload.
C4_ReadFailures ==
    /\ [](\A p \in Publishers :
            /\ (head[p] \in {"403", "404"}) =>
                    /\ prev_digest(metadata[p]) = <<>>
                    /\ ppc[p] \in {"compare", "returned", "raised"}
                    /\ ppc[p] = "returned" => outcome[p] = "Published"
                    /\ ppc[p] = "raised" => outcome[p] = "upload failed"
            /\ (head[p] \in ErrorCodes \ {"403", "404"}) =>
                    /\ ppc[p] = "raised"
                    /\ outcome[p] = head[p])
    /\ [][\A p \in Publishers :
            (/\ CallState(p)' # CallState(p)
             /\ head'[p] \in ErrorCodes \ {"403", "404"}) => object' = object]_vars

C4_Witness ==
    \E p \in Publishers :
        /\ head[p] = "403"
        /\ ppc[p] = "returned"
        /\ outcome[p] = "Published"
        /\ object.Body = value[p]

\* C5: a call that finds the existing digest equal to the payload's returns
\* Skipped and leaves the object, body and Metadata, as it was.
C5_SkipWritesNothing ==
    [][\A p \in Publishers :
        (/\ ppc[p] = "compare"
         /\ prev_digest(metadata[p]) = <<compute_digest(value[p])>>
         /\ CallState(p)' # CallState(p))
        => (/\ ppc'[p] = "returned"
            /\ outcome'[p] = "Skipped"
            /\ object' = object)]_vars

C5_Witness ==
    \E p \in Publishers :
        /\ ppc[p] = "returned"
        /\ outcome[p] = "Skipped"
        /\ object.exists
        /\ prev_digest(object.Metadata) = <<compute_digest(value[p])>>

\* C6: in every interleaving the digest in the object's Metadata is the
\* digest of the object's body, and it is there once a call has returned.
C6_DigestMatchesBody ==
    /\ prev_digest(object.Metadata) # <<>> =>
            /\ object.exists
            /\ prev_digest(object.Metadata) = <<compute_digest(object.Body)>>
    /\ (\E p \in Publishers : ppc[p] = "returned") =>
            /\ object.exists
            /\ prev_digest(object.Metadata) = <<compute_digest(object.Body)>>

\* two publishers that both read before either wrote, and both uploaded the
\* same bundle
C6_Witness ==
    /\ \A p \in Publishers : ppc[p] = "returned" /\ outcome[p] = "Published"
    /\ \E p \in Publishers : ~undisturbed[p]
    /\ \A p, q \in Publishers : value[p] = value[q]
    /\ \A p \in Publishers : object.Body = value[p] /\ value[p] # <<>>

----------------------------------------------------------------------------
(* Claims about the runs of deploy_function.py, under Spec.                 *)

\* the run's request failed for a reason that is not the revision: a fault of
\* the service, a precondition failure with another message, or a weight
\* that is not a number
RequestFailed(r) ==
    \/ answered[r].error \in {"ServiceException", "InvalidParameterValueException",
                              "ResourceNotFoundException"}
    \/ /\ answered[r].error = "PreconditionFailedException"
       /\ answered[r].message = OtherPreconditionMessage

\* the run's set_alias is called with a RevisionId that is not the alias's
StaleCommit(r) ==
    /\ pc[r] = "commit"
    /\ remote[function_name[r]].exists
    /\ cache[r][function_name[r]].RevisionId
           # remote[function_name[r]].description.RevisionId

\* C1: set_alias called with a RevisionId that is no longer the alias's
\* returns None (the run ends with the update conflict), unless the request
\* fails for another reason, and in every case the alias of every function
\* is as before, as a new get_alias shows.
C1_StaleCommitConflicts ==
    [][\A r \in Runs :
        (StaleCommit(r) /\ pc'[r] = "done") =>
            /\ remote' = remote
            /\ \A f \in Functions : get_alias(remote'[f]) = get_alias(remote[f])
            /\ answered'[r].error # "none"
            /\ ~RequestFailed(r)' => result'[r] = Ended("1", "update conflict", <<>>)]_vars

C1_Witness ==
    \E r \in Runs :
        /\ pc[r] = "done"
        /\ answered[r].error = "PreconditionFailedException"
        /\ answered[r].message = RevisionMessage
        /\ result[r] = Ended("1", "update conflict", <<>>)
        /\ cache[r][function_name[r]].RevisionId
               # remote[function_name[r]].description.RevisionId

\* the alias of f routes as the Alias a proposes
Routes(f, a) ==
    /\ remote[f].exists
    /\ remote[f].description.FunctionVersion = a.primary_version
    /\ remote[f].description.AdditionalVersionWeights = routing_config(a)

\* two runs deploy the same function and read its alias at the same revision
SameRead(r1, r2) ==
    /\ r1 # r2
    /\ function_name[r1] # None
    /\ function_name[r1] = function_name[r2]
    /\ cache[r1][function_name[r1]].found
    /\ cache[r2][function_name[r2]].found
    /\ cache[r1][function_name[r1]].RevisionId = cache[r2][function_name[r2]].RevisionId

\* C2: of two runs that read the alias of one function at the same revision
\* at most one updates it; the other, once it has called set_alias, ends with
\* the update conflict (or with its request failed) and the alias stays as
\* the successful run wrote it.
C2_NoLostUpdate ==
    \A r1, r2 \in Runs :
        (SameRead(r1, r2) /\ result[r1].why = "updated") =>
            /\ result[r2].why # "updated"
            /\ Routes(function_name[r1], new_alias[r1])
            /\ (pc[r2] = "done" /\ answered[r2] # NoAnswer) =>
                    \/ result[r2] = Ended("1", "update conflict", <<>>)
                    \/ RequestFailed(r2)

C2_Witness ==
    \E r1, r2 \in Runs :
        /\ SameRead(r1, r2)
        /\ result[r1].why = "updated"
        /\ result[r2] = Ended("1", "update conflict", <<>>)
        /\ new_alias[r1] # new_alias[r2]
        /\ Routes(function_name[r1], new_alias[r1])

\* C13 as stated: after the discovery a function is among the functions
\* kept if and only if get_alias returned an Alias with a RevisionId for
\* it; a function without alias, or whose alias names no published
\* version, is not among them.
C13_AsStated ==
    \A r \in Runs :
        pc[r] # "discover" =>
            \A f \in Functions :
                f \in functions[r] <=> (cache[r][f].found /\ cache[r][f].alias # <<>>)

\* C13: get_alias finds an alias exactly when the function has the alias
\* `current`; after the discovery a function is among the functions kept if
\* and only if get_alias found its alias, an alias on $LATEST (no current
\* Alias) included; a run picks its function from these unless it is named
\* on the command line, and sends an update only for a function whose alias
\* it found.
C13_DiscoveryKeepsAliased ==
    /\ [](\A r \in Runs :
            pc[r] # "discover" =>
                /\ \A f \in Functions : f \in functions[r] <=> cache[r][f].found
                /\ updates[r] > 0 => function_name[r] \in functions[r])
    /\ [][\A r \in Runs, f \in Functions :
            (~cache[r][f].called /\ cache'[r][f].called) =>
                (cache'[r][f].found <=> remote[f].exists)]_vars

\* a function whose alias points at $LATEST was kept, deployed and updated
C13_Witness ==
    \E r \in Runs :
        /\ result[r].why = "updated"
        /\ function_name[r] \in functions[r]
        /\ cache[r][function_name[r]].found
        /\ cache[r][function_name[r]].alias = <<>>

\* the run's update_alias was refused for its RevisionId
Conflict(r) ==
    /\ answered[r].error = "PreconditionFailedException"
    /\ is_revision_conflict(answered[r].message)

\* C14: a run sends at most one update_alias request; a run whose request
\* ended in the update conflict has ended, with exit status 1 and no
\* further request; a run whose request succeeded has ended with status 0.
C14_OneUpdatePerRun ==
    \A r \in Runs :
        /\ updates[r] <= 1
        /\ Conflict(r) =>
              /\ pc[r] = "done"
              /\ updates[r] = 1
              /\ result[r] = Ended("1", "update conflict", <<>>)
        /\ answered[r].error = "none" =>
              /\ pc[r] = "done"
              /\ updates[r] = 1
              /\ result[r].exit = "0"
              /\ result[r].why = "updated"

\* one run updated the alias, the other was refused and ended with status 1
C14_Witness ==
    \E r1, r2 \in Runs :
        /\ Conflict(r1)
        /\ result[r1].exit = "1"
        /\ updates[r1] = 1
        /\ answered[r2].error = "none"
        /\ result[r2].exit = "0"

\* C15: a run ends with the update conflict if and only if update_alias
\* failed with a PreconditionFailedException whose message names the
\* revision id; after any other failure, a PreconditionFailedException with
\* another message included, the run ends with that same exception
\* uncaught, neither as a conflict nor as an update.
C15_OnlyRevisionMismatchConflicts ==
    \A r \in Runs :
        /\ result[r].why = "update conflict" <=> Conflict(r)
        /\ (answered[r] # NoAnswer /\ answered[r].error # "none" /\ ~Conflict(r)) =>
              result[r] = Ended("traceback", answered[r].error, <<>>)

\* a precondition failure that does not name the revision id ended the run
\* with the exception
C15_Witness ==
    \E r \in Runs :
        /\ answered[r].error = "PreconditionFailedException"
        /\ answered[r].message = OtherPreconditionMessage
        /\ result[r] = Ended("traceback", "PreconditionFailedException", <<>>)

\* the run's set_alias is called with the RevisionId the alias has
MatchingCommit(r) ==
    /\ pc[r] = "commit"
    /\ remote[function_name[r]].exists
    /\ cache[r][function_name[r]].RevisionId
           = remote[function_name[r]].description.RevisionId

\* C16: set_alias called with the RevisionId the alias has, when the request
\* does not fail for an unrelated reason, succeeds: afterwards the alias
\* has the proposed primary version as its FunctionVersion and
\* {secondary_version: secondary_weight} as its AdditionalVersionWeights
\* (none when the proposal has no secondary version), and the Alias
\* returned is parsed from the description update_alias answered with,
\* which is the alias's description.
C16_MatchingCommitRoutesAsProposed ==
    [][\A r \in Runs :
        (MatchingCommit(r) /\ pc'[r] = "done" /\ ~RequestFailed(r)') =>
            LET f == function_name[r]
                proposed == new_alias[r]
            IN  /\ answered'[r].error = "none"
                /\ remote'[f].exists
                /\ remote'[f].description.FunctionVersion = proposed.primary_version
                /\ remote'[f].description.AdditionalVersionWeights =
                       IF proposed.secondary_version = None THEN <<>>
                       ELSE <<<<proposed.secondary_version, proposed.secondary_weight>>>>
                /\ remote'[f].description = answered'[r].description
                /\ result'[r] = Ended("0", "updated",
                                      from_description(answered'[r].description))]_vars

\* a split was committed under the RevisionId read and the alias holds it
C16_Witness ==
    \E r \in Runs :
        /\ result[r].why = "updated"
        /\ new_alias[r].secondary_version # None
        /\ remote[function_name[r]].description.FunctionVersion
               = new_alias[r].primary_version
        /\ remote[function_name[r]].description.AdditionalVersionWeights
               = <<<<new_alias[r].secondary_version, new_alias[r].secondary_weight>>>>
        /\ result[r].returned = from_description(answered[r].description)

\* a single version with no secondary and weight 0, or a split whose
\* secondary weight lies strictly between 0 and 1
NormalForm(a) ==
    \/ a.secondary_version = None /\ a.secondary_weight = 0
    \/ /\ a.secondary_version # None
       /\ IsWeight(a.secondary_weight)
       /\ 0 < a.secondary_weight
       /\ a.secondary_weight < One

\* C17: every alias from_versions returns in a run, and so every alias the
\* run passes to set_alias, is in normal form: a single version, or a
\* split with a secondary weight strictly between 0 and 1.
C17_ProposedInNormalForm ==
    \A r \in Runs :
        /\ new_alias[r] # AliasOf(None) => NormalForm(new_alias[r])
        /\ updates[r] > 0 => NormalForm(new_alias[r])

\* C18: right after a run's set_alias has updated the alias of a function,
\* the run's memo of get_alias for that function is empty or holds the
\* alias and the RevisionId as updated, so that get_alias cannot return
\* the alias or the RevisionId from before the update.
C18_MemoInvalidatedOnCommit ==
    [][\A r \in Runs :
        (pc[r] = "commit" /\ result'[r].why = "updated") =>
            LET f == function_name[r]
            IN  \/ cache'[r][f] = NotCalled
                \/ cache'[r][f] = get_alias(remote'[f])]_vars

\* the alias the run proposed routes as the normalized alias it read
MatchesCurrent(r) ==
    /\ new_alias[r] # AliasOf(None)
    /\ cache[r][function_name[r]].alias # <<>>
    /\ SameWeights(normalized(cache[r][function_name[r]].alias[1]), new_alias[r])

\* C19: a run whose proposed alias equals the normalized current alias
\* sends no update_alias and ends with status 0; so does a run whose
\* function has at most one published version, and a run in which no
\* version is selected.
C19_NoUpdateWithoutChange ==
    \A r \in Runs :
        /\ MatchesCurrent(r) =>
              /\ updates[r] = 0
              /\ result[r] = Ended("0", "requested traffic routing matches current alias", <<>>)
        /\ (function_name[r] # None /\ Cardinality(get_versions(function_name[r])) <= 1) =>
              /\ updates[r] = 0
              /\ result[r].exit = "0"
        /\ result[r].why = "no versions selected for deployment" =>
              /\ updates[r] = 0
              /\ result[r].exit = "0"

\* C20: a run reads the alias of a function once, during the discovery,
\* and what it read stays what get_alias returns; the no-change
\* comparison uses the alias of that read and set_alias is guarded by the
\* RevisionId of that read, so that when the alias has a different
\* RevisionId by the time of set_alias the run ends with the update
\* conflict (or with its request failed) and the alias stays as it is.
C20_OneReadGuardsCommit ==
    /\ [][\A r \in Runs, f \in Functions :
            IF cache[r][f].called
            THEN cache'[r][f] = cache[r][f]
            ELSE cache'[r][f] \in {cache[r][f], get_alias(remote[f])}]_vars
    /\ [](\A r \in Runs :
            LET read == cache[r][function_name[r]]
            IN  /\ result[r].why = "requested traffic routing matches current alias" =>
                      /\ read.alias # <<>>
                      /\ eq(normalized(read.alias[1]), new_alias[r])
                /\ pc[r] = "commit" =>
                      /\ read.found
                      /\ read.alias # <<>> => ~eq(normalized(read.alias[1]), new_alias[r]))
    /\ [][\A r \in Runs :
            (pc[r] = "commit" /\ pc'[r] = "done") =>
                LET f == function_name[r]
                IN  (remote[f].exists
                       /\ remote[f].description.RevisionId # cache[r][f].RevisionId) =>
                        /\ remote'[f] = remote[f]
                        /\ \/ result'[r] = Ended("1", "update conflict", <<>>)
                           \/ RequestFailed(r)']_vars

\* the alias was changed after the run had read it, and the run's update
\* was refused and left the change in place
C20_Witness ==
    \E r \in Runs :
        LET f == function_name[r]
        IN  /\ result[r] = Ended("1", "update conflict", <<>>)
            /\ remote[f].description.RevisionId # cache[r][f].RevisionId
            /\ from_description(remote[f].description) # cache[r][f].alias
            /\ \E r2 \in Runs \ {r} :
                   /\ result[r2].why = "updated"
                   /\ Routes(f, new_alias[r2])

====
